---- MODULE Spec2Model ----
(***************************************************************************)
(* State-machine model of the Restricted Boltzmann Machine engine of       *)
(* CH14/RBM_01.py (class RBM).                                             *)
(*                                                                         *)
(* Numbers.  Every float of the program is a fixed-point integer with      *)
(* unit One (1.0 is One); a boolean stored in or multiplied with a float   *)
(* array is 0 or One, as numpy converts it.  np.exp is a truncated series. *)
(* np.random.rand draws are chosen from RandVals, a subset of [0, 1).      *)
(* Matrices are sequences of rows.                                         *)
(***************************************************************************)
EXTENDS Integers, Sequences, FiniteSets

\* ---------------------------------------------------------------- bounds
One == 1000
MaxVisible == 2
MaxHidden == 1
MaxCols == 2
MaxExamples == 1
MaxQueryRows == 2
MaxEpochs == 2
MaxTotalEpochs == 2
MaxSamples == 3

VARIABLES
  constructed,        \* an RBM object exists
  num_visible,        \* self.num_visible
  num_hidden,         \* self.num_hidden
  weights,            \* self.weights
  pc,                 \* position inside the running call, "idle" between calls
  op,                 \* the running call, or the last one when idle
  err,                \* exception the last call raised, "none" otherwise
  args,               \* integer arguments of the call: <<nv, nh>>, <<max_epochs>>, <<num_samples>>
  numpy_ops,          \* numpy operations the call has attempted so far
  ret,                \* value the last call returned
  data,               \* local data (after the bias column is inserted)
  rnd,                \* the np.random.rand matrix drawn by run_visible / run_hidden
  max_epochs,         \* argument max_epochs of train
  epoch,              \* loop variable of train
  pos_hidden_probs,   \* local of train
  neg_visible_probs,  \* local of train
  pos_associations,   \* local of train
  neg_associations,   \* local of train
  out,                \* lines printed by the running train call: <<epoch, error>>
  num_samples,        \* argument num_samples of daydream
  samples,            \* local of daydream
  i,                  \* loop variable of daydream: the row the next Gibbs step reads, from 1
  visible,            \* local of daydream
  hidden_states,      \* local of daydream
  w_entry,            \* history: self.weights when the running call was entered
  hist,               \* history: <<data, random matrix>> of every epoch applied since construction
  init_weights,       \* history: self.weights as construction left it
  other               \* a second RBM object: <<num_visible, num_hidden, weights>>, <<>> when absent

engine == <<constructed, num_visible, num_hidden, weights>>
call == <<pc, op, err, args, numpy_ops, ret, data, rnd>>
trainLocals == <<max_epochs, epoch, pos_hidden_probs, neg_visible_probs,
                 pos_associations, neg_associations, out>>
dreamLocals == <<num_samples, samples, i, visible, hidden_states>>
history == <<w_entry, hist, init_weights>>
vars == <<engine, call, trainLocals, dreamLocals, history, other>>

\* ------------------------------------------------------------ arithmetic
Mul(a, b) == (a * b) \div One

Clamp(x, lo, hi) == IF x < lo THEN lo ELSE IF x > hi THEN hi ELSE x

RECURSIVE SqrtIter(_, _, _)
SqrtIter(n, lo, hi) ==
  IF lo >= hi THEN lo
  ELSE LET mid == (lo + hi + 1) \div 2
       IN IF mid * mid <= n THEN SqrtIter(n, mid, hi) ELSE SqrtIter(n, lo, mid - 1)

\* np.sqrt on a non-negative fixed-point number
Sqrt(x) == SqrtIter(x * One, 0, x + One)

\* series of e^y, used for |y| <= 1
ExpSeries(y) ==
  LET y2 == Mul(y, y)
      y3 == Mul(y2, y)
      y4 == Mul(y3, y)
  IN One + y + (y2 \div 2) + (y3 \div 6) + (y4 \div 24)

\* np.exp: e^x = (e^(x/8))^8, saturating outside [-8, 8]
Exp(x) ==
  LET e1 == ExpSeries(Clamp(x, -8 * One, 8 * One) \div 8)
      e2 == Mul(e1, e1)
      e4 == Mul(e2, e2)
  IN Mul(e4, e4)

\* RBM._logistic on one entry
Logistic1(x) == (One * One) \div (One + Exp(-x))

\* ---------------------------------------------------------------- matrices
Rows(m) == Len(m)
Cols(m) == IF Len(m) = 0 THEN 0 ELSE Len(m[1])

\* the array with entries f[1], ..., f[n], held as a sequence of values
Values(f) == <<>> \o f

RECURSIVE SumTo(_, _)
SumTo(f, n) == IF n = 0 THEN 0 ELSE f[n] + SumTo(f, n - 1)

\* np.dot of two 2-D arrays whose inner dimensions agree
Dot(A, B) ==
  Values([r \in 1..Rows(A) |->
     Values([c \in 1..Cols(B) |->
        SumTo([k \in 1..Rows(B) |-> Mul(A[r][k], B[k][c])], Rows(B))])])

\* np.dot raises ValueError unless the inner dimensions agree
DotDefined(A, B) == Cols(A) = Rows(B)

\* m.T
Transpose(m) ==
  Values([c \in 1..Cols(m) |-> Values([r \in 1..Rows(m) |-> m[r][c]])])

\* RBM._logistic
Logistic(m) ==
  Values([r \in 1..Rows(m) |-> Values([c \in 1..Cols(m) |-> Logistic1(m[r][c])])])

\* np.insert(data, 0, 1, axis = 1)
InsertBias(m) == Values([r \in 1..Rows(m) |-> <<One>> \o m[r]])

\* probs > np.random.rand(...), entry by entry
Greater(p, u) ==
  Values([r \in 1..Rows(p) |->
     Values([c \in 1..Cols(p) |-> IF p[r][c] > u[r][c] THEN One ELSE 0])])

\* the assignment m[:,0] = 1 left out
NoPin(m) == m

\* m[:,0] = 1
PinBias(m) ==
  Values([r \in 1..Rows(m) |->
     Values([c \in 1..Cols(m) |-> IF c = 1 THEN One ELSE m[r][c]])])

\* m[:,:-1], the last column dropped instead of the first
StripLast(m) == Values([r \in 1..Rows(m) |-> SubSeq(m[r], 1, Len(m[r]) - 1)])

\* m[:,1:]
StripBias(m) == Values([r \in 1..Rows(m) |-> Tail(m[r])])

MatSub(A, B) ==
  Values([r \in 1..Rows(A) |-> Values([c \in 1..Cols(A) |-> A[r][c] - B[r][c]])])

\* ------------------------------------------------------------------ inputs
\* values np.random.rand can return, all in [0, 1)
RandVals == {One \div 4, (3 * One) \div 4}

RandMatrix(n, m) == [1..n -> [1..m -> RandVals]]

\* 0/1 matrices a caller passes, with any number of columns
BinaryMatrix(n, m) == [1..n -> [1..m -> {0, One}]]

\* data passed to train
DataInputs == UNION {BinaryMatrix(n, m) : n \in 1..MaxExamples, m \in 1..MaxCols}

\* data passed to run_visible and run_hidden
QueryInputs == UNION {BinaryMatrix(n, m) : n \in 1..MaxQueryRows, m \in 1..MaxCols}

\* train's default learning_rate = 0.1
learning_rate == One \div 10

\* -------------------------------------------------------------- __init__
\* first doubles of np.random.RandomState(1234), in thousandths
SeedStream == <<192, 622, 438, 785, 780, 273, 276, 802, 958, 876, 358, 501>>

\* 0.1 * np.sqrt(6. / (num_hidden + num_visible))
InitBound(nv, nh) == Sqrt((6 * One) \div (nh + nv)) \div 10

\* np_rng.uniform(low, high, size = (num_visible, num_hidden)), row-major
SeededUniform(nv, nh) ==
  LET b == InitBound(nv, nh)
  IN Values([r \in 1..nv |->
        Values([c \in 1..nh |-> (2 * b * SeedStream[(r - 1) * nh + c]) \div 1000 - b])])

\* np.insert(w, 0, 0, axis = 0) then np.insert(w, 0, 0, axis = 1)
InsertZeroBias(w, nh) ==
  LET withRow == <<Values([c \in 1..nh |-> 0])>> \o w
  IN Values([r \in 1..Len(withRow) |-> <<0>> \o withRow[r]])

\* np.random.rand-based stand-in for the seeded generator: any draw of the
\* process-wide generator, scaled to [-b, b)
GlobalUniform(nv, nh) ==
  LET b == InitBound(nv, nh)
  IN {Values([r \in 1..nv |-> Values([c \in 1..nh |-> (2 * b * u[r][c]) \div One - b])]) :
        u \in RandMatrix(nv, nh)}

InitWeightsFromGlobalRng(nv, nh) == {InsertZeroBias(m, nh) : m \in GlobalUniform(nv, nh)}

\* the values of self.weights __init__ can leave: one, since the generator
\* is a fresh RandomState(1234) on every call
InitWeights(nv, nh) == {InsertZeroBias(SeededUniform(nv, nh), nh)}

\* a dimension check in front of __init__
InitErrorStrict(nv, nh) == IF nv <= 0 \/ nh <= 0 THEN {"ValueError"} ELSE {"none"}

NoTrainLocals ==
  /\ max_epochs' = 0 /\ epoch' = 0 /\ out' = <<>>
  /\ pos_hidden_probs' = <<>> /\ neg_visible_probs' = <<>>
  /\ pos_associations' = <<>> /\ neg_associations' = <<>>

NoDreamLocals ==
  /\ num_samples' = 0 /\ samples' = <<>> /\ i' = 0
  /\ visible' = <<>> /\ hidden_states' = <<>>

\* the exception RBM(nv, nh) raises, "none" when it returns an object
InitError(nv, nh) ==
  IF nv + nh = 0 THEN {"ZeroDivisionError"}                 \* 6. / 0
  ELSE IF nv + nh < 0 THEN {"ValueError", "OverflowError"}  \* uniform(nan, nan, size < 0)
  ELSE IF nv < 0 \/ nh < 0 THEN {"ValueError"}              \* negative dimensions
  ELSE {"none"}

\* lines 9-28
\* r = RBM(nv, nh): the object under use is replaced when __init__ returns
Construct ==
  /\ pc = "idle"
  /\ \E nv \in -1..MaxVisible, nh \in -1..MaxHidden :
       \E e \in InitError(nv, nh) :
         /\ op' = "init" /\ err' = e /\ args' = <<nv, nh>>
         /\ numpy_ops' = IF e = "none" THEN {"uniform", "insert"} ELSE {}
         /\ IF e = "none"
            THEN /\ constructed' = TRUE
                 /\ num_visible' = nv
                 /\ num_hidden' = nh
                 /\ weights' \in InitWeights(nv, nh)
                 /\ init_weights' = weights'
                 /\ w_entry' = weights'
                 /\ hist' = <<>>
            ELSE UNCHANGED <<engine, history>>
  /\ pc' = "returned"
  /\ ret' = <<>> /\ data' = <<>> /\ rnd' = <<>>
  /\ NoTrainLocals /\ NoDreamLocals
  /\ UNCHANGED other

\* the caller has taken the result: the call's frame is gone
Return ==
  /\ pc = "returned"
  /\ pc' = "idle" /\ op' = "none" /\ err' = "none" /\ args' = <<>>
  /\ numpy_ops' = {} /\ ret' = <<>> /\ data' = <<>> /\ rnd' = <<>>
  /\ NoTrainLocals /\ NoDreamLocals
  /\ other' = <<>>
  /\ w_entry' = weights
  /\ UNCHANGED <<engine, hist, init_weights>>

\* ------------------------------------------------------------------ train
\* lines 40-42
PosHiddenProbs(w, d) == PinBias(Logistic(Dot(d, w)))

\* line 43
PosHiddenStates(w, d, u) == Greater(PosHiddenProbs(w, d), u)

\* line 44
PosAssociations(w, d) == Dot(Transpose(d), PosHiddenProbs(w, d))

\* lines 47-49
NegVisibleProbs(w, d, u) == PinBias(Logistic(Dot(PosHiddenStates(w, d, u), Transpose(w))))

\* lines 50-52
NegAssociations(w, d, u) ==
  LET nvp == NegVisibleProbs(w, d, u)
  IN Dot(Transpose(nvp), Logistic(Dot(nvp, w)))

\* line 54: self.weights += learning_rate * ((pos - neg) / num_examples)
Updated(w, pos, neg, n) ==
  Values([r \in 1..Rows(w) |->
     Values([c \in 1..Cols(w) |->
        w[r][c] + Mul(learning_rate, (pos[r][c] - neg[r][c]) \div n)])])

\* line 56: np.sum((data - neg_visible_probs) ** 2)
SquaredError(d, nvp) ==
  LET diff == MatSub(d, nvp)
      rowSum == Values([r \in 1..Rows(d) |->
                   SumTo([c \in 1..Cols(d) |-> Mul(diff[r][c], diff[r][c])], Cols(d))])
  IN SumTo(rowSum, Rows(d))

\* train with the weights drawn afresh on entry
TrainReinit ==
  /\ pc = "idle" /\ constructed
  /\ \E d \in DataInputs, me \in -1..MaxEpochs :
       /\ (me > 0 => Len(hist) + me <= MaxTotalEpochs)
       /\ data' = InsertBias(d)
       /\ max_epochs' = me
       /\ args' = <<me>>
  /\ pc' = "train_loop" /\ op' = "train" /\ err' = "none"
  /\ numpy_ops' = {"insert"}
  /\ epoch' = 0 /\ out' = <<>>
  /\ weights' \in InitWeights(num_visible, num_hidden)
  /\ w_entry' = weights'
  /\ UNCHANGED <<constructed, num_visible, num_hidden, ret, rnd, pos_hidden_probs,
                 neg_visible_probs, pos_associations, neg_associations, dreamLocals,
                 hist, init_weights, other>>

\* lines 30-35: the call is entered and the bias column inserted
Train ==
  /\ pc = "idle" /\ constructed
  /\ \E d \in DataInputs, me \in -1..MaxEpochs :
       /\ (me > 0 => Len(hist) + me <= MaxTotalEpochs)
       /\ data' = InsertBias(d)
       /\ max_epochs' = me
       /\ args' = <<me>>
  /\ pc' = "train_loop" /\ op' = "train" /\ err' = "none"
  /\ numpy_ops' = {"insert"}
  /\ epoch' = 0 /\ out' = <<>>
  /\ w_entry' = weights
  /\ UNCHANGED <<engine, ret, rnd, pos_hidden_probs, neg_visible_probs,
                 pos_associations, neg_associations, dreamLocals, hist, init_weights, other>>

\* lines 37-52: one more epoch is due; the two phases are computed
TrainEpoch ==
  /\ pc = "train_loop" /\ epoch < max_epochs
  /\ IF ~DotDefined(data, weights)
     THEN /\ pc' = "returned" /\ err' = "ValueError"
          /\ numpy_ops' = numpy_ops \cup {"dot"}
          /\ UNCHANGED <<rnd, pos_hidden_probs, neg_visible_probs,
                         pos_associations, neg_associations>>
     ELSE \E u \in RandMatrix(Rows(data), num_hidden + 1) :
            /\ pc' = "train_update" /\ err' = "none"
            /\ numpy_ops' = numpy_ops \cup {"dot", "exp", "rand"}
            /\ rnd' = u
            /\ pos_hidden_probs' = PosHiddenProbs(weights, data)
            /\ pos_associations' = PosAssociations(weights, data)
            /\ neg_visible_probs' = NegVisibleProbs(weights, data, u)
            /\ neg_associations' = NegAssociations(weights, data, u)
  /\ UNCHANGED <<engine, op, args, ret, data, max_epochs, epoch, out,
                 dreamLocals, history, other>>

\* the update with line 35 inside the loop: the bias column is inserted again
TrainUpdateReinsert ==
  /\ pc = "train_update"
  /\ weights' = Updated(weights, pos_associations, neg_associations, Rows(data))
  /\ out' = Append(out, <<epoch, SquaredError(data, neg_visible_probs)>>)
  /\ hist' = Append(hist, <<data, rnd>>)
  /\ epoch' = epoch + 1
  /\ data' = InsertBias(data)
  /\ pc' = "train_loop"
  /\ UNCHANGED <<constructed, num_visible, num_hidden, op, err, args, numpy_ops, ret,
                 rnd, max_epochs, pos_hidden_probs, neg_visible_probs,
                 pos_associations, neg_associations, dreamLocals,
                 w_entry, init_weights, other>>

\* lines 54-58: the weights are updated and the epoch's error printed
TrainUpdate ==
  /\ pc = "train_update"
  /\ weights' = Updated(weights, pos_associations, neg_associations, Rows(data))
  /\ out' = Append(out, <<epoch, SquaredError(data, neg_visible_probs)>>)
  /\ hist' = Append(hist, <<data, rnd>>)
  /\ epoch' = epoch + 1
  /\ pc' = "train_loop"
  /\ UNCHANGED <<constructed, num_visible, num_hidden, op, err, args, numpy_ops, ret,
                 data, rnd, max_epochs, pos_hidden_probs, neg_visible_probs,
                 pos_associations, neg_associations, dreamLocals,
                 w_entry, init_weights, other>>

\* line 37: range(max_epochs) is exhausted
TrainReturn ==
  /\ pc = "train_loop" /\ epoch >= max_epochs
  /\ pc' = "returned"
  /\ UNCHANGED <<engine, op, err, args, numpy_ops, ret, data, rnd,
                 trainLocals, dreamLocals, history, other>>

\* ----------------------------------------------------- run_visible, run_hidden
\* lines 70-76
HiddenStates(w, d, u) == StripBias(Greater(Logistic(Dot(d, w)), u))

\* lines 86-93
VisibleStates(w, d, u) == StripBias(Greater(Logistic(Dot(d, Transpose(w))), u))

\* run_visible with the shape error swallowed: the preallocated ones are returned
RunVisibleSwallow ==
  /\ pc = "idle" /\ constructed
  /\ \E d \in QueryInputs :
       LET a == InsertBias(d)
       IN /\ data' = a
          /\ IF ~DotDefined(a, weights)
             THEN /\ err' = "none" /\ rnd' = <<>>
                  /\ ret' = Values([r \in 1..Rows(d) |-> Values([c \in 1..num_hidden |-> One])])
                  /\ numpy_ops' = {"ones", "insert", "dot"}
             ELSE \E u \in RandMatrix(Rows(d), num_hidden + 1) :
                    /\ err' = "none" /\ rnd' = u
                    /\ ret' = HiddenStates(weights, a, u)
                    /\ numpy_ops' = {"ones", "insert", "dot", "exp", "rand"}
  /\ pc' = "returned" /\ op' = "run_visible" /\ args' = <<>>
  /\ w_entry' = weights
  /\ UNCHANGED <<engine, trainLocals, dreamLocals, hist, init_weights, other>>

\* lines 60-77
RunVisible ==
  /\ pc = "idle" /\ constructed
  /\ \E d \in QueryInputs :
       LET a == InsertBias(d)
       IN /\ data' = a
          /\ IF ~DotDefined(a, weights)
             THEN /\ err' = "ValueError" /\ ret' = <<>> /\ rnd' = <<>>
                  /\ numpy_ops' = {"ones", "insert", "dot"}
             ELSE \E u \in RandMatrix(Rows(d), num_hidden + 1) :
                    /\ err' = "none" /\ rnd' = u
                    /\ ret' = HiddenStates(weights, a, u)
                    /\ numpy_ops' = {"ones", "insert", "dot", "exp", "rand"}
  /\ pc' = "returned" /\ op' = "run_visible" /\ args' = <<>>
  /\ w_entry' = weights
  /\ UNCHANGED <<engine, trainLocals, dreamLocals, hist, init_weights, other>>

\* run_hidden with self.weights replaced by its transpose
RunHiddenTransposes ==
  /\ pc = "idle" /\ constructed
  /\ \E d \in QueryInputs :
       LET a == InsertBias(d)
       IN /\ data' = a
          /\ IF ~DotDefined(a, Transpose(weights))
             THEN /\ err' = "ValueError" /\ ret' = <<>> /\ rnd' = <<>>
                  /\ numpy_ops' = {"ones", "insert", "dot"}
             ELSE \E u \in RandMatrix(Rows(d), num_visible + 1) :
                    /\ err' = "none" /\ rnd' = u
                    /\ ret' = VisibleStates(weights, a, u)
                    /\ numpy_ops' = {"ones", "insert", "dot", "exp", "rand"}
  /\ pc' = "returned" /\ op' = "run_hidden" /\ args' = <<>>
  /\ w_entry' = weights
  /\ weights' = Transpose(weights)
  /\ UNCHANGED <<constructed, num_visible, num_hidden, trainLocals, dreamLocals,
                 hist, init_weights, other>>

\* lines 79-94
RunHidden ==
  /\ pc = "idle" /\ constructed
  /\ \E d \in QueryInputs :
       LET a == InsertBias(d)
       IN /\ data' = a
          /\ IF ~DotDefined(a, Transpose(weights))
             THEN /\ err' = "ValueError" /\ ret' = <<>> /\ rnd' = <<>>
                  /\ numpy_ops' = {"ones", "insert", "dot"}
             ELSE \E u \in RandMatrix(Rows(d), num_visible + 1) :
                    /\ err' = "none" /\ rnd' = u
                    /\ ret' = VisibleStates(weights, a, u)
                    /\ numpy_ops' = {"ones", "insert", "dot", "exp", "rand"}
  /\ pc' = "returned" /\ op' = "run_hidden" /\ args' = <<>>
  /\ w_entry' = weights
  /\ UNCHANGED <<engine, trainLocals, dreamLocals, hist, init_weights, other>>

\* --------------------------------------------------------------- daydream
\* lines 98-101: np.ones((num_samples, num_visible + 1)), then row 0 from rand
FirstSamples(k, nv, u) ==
  Values([r \in 1..k |-> IF r = 1 THEN <<One>> \o u ELSE Values([c \in 1..(nv + 1) |-> One])])

\* lines 107-113, on the vector v
GibbsHidden(w, v, u) ==
  LET sampled == Greater(Logistic(Dot(<<v>>, w)), <<u>>)[1]
  IN [sampled EXCEPT ![1] = One]

\* the probabilities stored instead of the sampled states
GibbsVisibleProbs(w, h, u) == Logistic(Dot(<<h>>, Transpose(w)))[1]

\* lines 115-117, on the vector h
GibbsVisible(w, h, u) == Greater(Logistic(Dot(<<h>>, Transpose(w))), <<u>>)[1]

\* lines 96-101
Daydream ==
  /\ pc = "idle" /\ constructed
  /\ \E k \in -1..MaxSamples :
       /\ num_samples' = k /\ args' = <<k>>
       /\ IF k < 0
          THEN /\ pc' = "returned" /\ err' = "ValueError"      \* np.ones, negative dimension
               /\ numpy_ops' = {"ones"} /\ samples' = <<>> /\ i' = 0
          ELSE IF k = 0
          THEN /\ pc' = "returned" /\ err' = "IndexError"      \* samples[0,1:] on 0 rows
               /\ numpy_ops' = {"ones", "rand"} /\ samples' = <<>> /\ i' = 0
          ELSE \E u \in [1..num_visible -> RandVals] :
                 /\ pc' = "dream_loop" /\ err' = "none"
                 /\ numpy_ops' = {"ones", "rand"}
                 /\ samples' = FirstSamples(k, num_visible, u)
                 /\ i' = 1
  /\ op' = "daydream"
  /\ w_entry' = weights
  /\ UNCHANGED <<engine, ret, data, rnd, trainLocals, visible, hidden_states,
                 hist, init_weights, other>>

\* lines 104-113: one more sample is due; the hidden units are sampled
DaydreamHidden ==
  /\ pc = "dream_loop" /\ i < num_samples
  /\ \E u \in [1..(num_hidden + 1) -> RandVals] :
       /\ visible' = samples[i]
       /\ hidden_states' = GibbsHidden(weights, samples[i], u)
  /\ pc' = "dream_visible"
  /\ numpy_ops' = numpy_ops \cup {"dot", "exp"}
  /\ UNCHANGED <<engine, op, err, args, ret, data, rnd, trainLocals,
                 num_samples, samples, i, history, other>>

\* lines 115-118: the visible units are sampled and stored as row i
DaydreamVisible ==
  /\ pc = "dream_visible"
  /\ \E u \in [1..(num_visible + 1) -> RandVals] :
       samples' = [samples EXCEPT ![i + 1] = GibbsVisible(weights, hidden_states, u)]
  /\ i' = i + 1
  /\ pc' = "dream_loop"
  /\ UNCHANGED <<engine, op, err, args, numpy_ops, ret, data, rnd, trainLocals,
                 num_samples, visible, hidden_states, history, other>>

\* line 120: range(1, num_samples) is exhausted
DaydreamReturn ==
  /\ pc = "dream_loop" /\ i >= num_samples
  /\ ret' = StripBias(samples)
  /\ pc' = "returned"
  /\ UNCHANGED <<engine, op, err, args, numpy_ops, data, rnd, trainLocals,
                 dreamLocals, history, other>>

\* ------------------------------------------------------- a second object
\* lines 9-28
\* other = RBM(nv, nh): a second object, while the first stays as it is
ConstructOther ==
  /\ pc = "idle"
  /\ \E nv \in -1..MaxVisible, nh \in -1..MaxHidden :
       \E e \in InitError(nv, nh) :
         /\ err' = e /\ args' = <<nv, nh>>
         /\ numpy_ops' = IF e = "none" THEN {"uniform", "insert"} ELSE {}
         /\ IF e = "none"
            THEN \E w \in InitWeights(nv, nh) : other' = <<nv, nh, w>>
            ELSE other' = <<>>
  /\ pc' = "returned" /\ op' = "init_other"
  /\ UNCHANGED <<engine, ret, data, rnd, trainLocals, dreamLocals, history>>

Init ==
  /\ constructed = FALSE /\ num_visible = 0 /\ num_hidden = 0 /\ weights = <<>>
  /\ pc = "idle" /\ op = "none" /\ err = "none" /\ args = <<>> /\ numpy_ops = {}
  /\ ret = <<>> /\ data = <<>> /\ rnd = <<>>
  /\ max_epochs = 0 /\ epoch = 0 /\ out = <<>>
  /\ pos_hidden_probs = <<>> /\ neg_visible_probs = <<>>
  /\ pos_associations = <<>> /\ neg_associations = <<>>
  /\ num_samples = 0 /\ samples = <<>> /\ i = 0
  /\ visible = <<>> /\ hidden_states = <<>>
  /\ w_entry = <<>> /\ hist = <<>> /\ init_weights = <<>>
  /\ other = <<>>

Next ==
  \/ Construct
  \/ ConstructOther
  \/ Train
  \/ TrainEpoch
  \/ TrainUpdate
  \/ TrainReturn
  \/ RunVisible
  \/ RunHidden
  \/ Daydream
  \/ DaydreamHidden
  \/ DaydreamVisible
  \/ DaydreamReturn
  \/ Return

Spec == Init /\ [][Next]_vars

\* ------------------------------------------------------------- properties
\* one epoch of train as a function of the weights, the data and the draws
EpochWeights(w, d, u) ==
  Updated(w, PosAssociations(w, d), NegAssociations(w, d, u), Rows(d))

RECURSIVE ApplyEpochs(_, _)
ApplyEpochs(w, h) ==
  IF h = <<>> THEN w ELSE ApplyEpochs(EpochWeights(w, h[1][1], h[1][2]), Tail(h))

Binary(m) == \A r \in 1..Rows(m) : \A c \in 1..Len(m[r]) : m[r][c] \in {0, One}
Shape(m, n, k) == Rows(m) = n /\ \A r \in 1..n : Len(m[r]) = k
Max0(n) == IF n > 0 THEN n ELSE 0

\* the call's data has a column count the engine's dimension does not match
Mismatch ==
  \/ op \in {"train", "run_visible"} /\ Cols(data) # num_visible + 1
  \/ op = "run_hidden" /\ Cols(data) # num_hidden + 1

\* both dimensions of the engine are positive
ValidEngine == constructed /\ num_visible >= 1 /\ num_hidden >= 1

\* C1 as claimed: a call with mismatching columns fails with an error (any
\* exception is read as ShapeMismatch) before any matrix operation (bias
\* insertion, dot product) is attempted.
C1_ShapeMismatchAtBoundary ==
  (pc = "returned" /\ Mismatch /\ ValidEngine) => (err # "none" /\ numpy_ops = {})

\* C1 amended: a call with mismatching columns fails with numpy's ValueError,
\* raised by the first dot product after the bias column was inserted and
\* before any logistic or random draw; nothing is returned and the weights
\* are as on entry.  The one exception is train with max_epochs <= 0, which
\* returns without error since no dot product is reached.
C1_ValueErrorAtFirstDot ==
  (pc = "returned" /\ Mismatch) =>
     IF op = "train" /\ max_epochs <= 0
     THEN err = "none" /\ weights = w_entry
     ELSE /\ err = "ValueError"
          /\ {"insert", "dot"} \subseteq numpy_ops
          /\ numpy_ops \cap {"exp", "rand"} = {}
          /\ ret = <<>>
          /\ weights = w_entry

C1_Witness ==
  /\ pc = "returned" /\ Mismatch /\ err = "ValueError"
  /\ op = "run_visible" /\ ValidEngine /\ hist # <<>>

\* C2: a train call either completes all max_epochs epochs (that many weight
\* updates, one printed line each) or fails with the weights equal to the
\* weights on entry and no epoch applied.
C2_NoPartialFailure ==
  (pc = "returned" /\ op = "train") =>
     IF err = "none"
     THEN epoch = Max0(max_epochs) /\ Len(out) = epoch
     ELSE weights = w_entry /\ epoch = 0 /\ out = <<>>

C2_Witness ==
  /\ pc = "returned" /\ op = "train" /\ err # "none"
  /\ max_epochs >= 1 /\ hist # <<>> /\ weights # init_weights

NonPositiveArg ==
  \/ op \in {"init", "init_other"} /\ (args[1] <= 0 \/ args[2] <= 0)
  \/ op \in {"train", "daydream"} /\ args[1] <= 0

\* C3 as claimed: a non-positive numVisible, numHidden, maxEpochs or
\* numSamples is rejected with an error (any exception is read as
\* InvalidDimension).
C3_InvalidDimensionRejected ==
  (pc = "returned" /\ NonPositiveArg) => err # "none"

\* C3 amended: no call raises InvalidDimension.  train with max_epochs <= 0
\* returns without error, prints nothing and leaves the weights as they
\* were; daydream(0) fails with IndexError and daydream of a negative count
\* with ValueError, neither returning a matrix; construction fails with
\* ZeroDivisionError when the dimensions sum to 0, with ValueError or
\* OverflowError when one is negative, and succeeds with an all-zero
\* (numVisible+1) x (numHidden+1) matrix when one is 0 and the other positive.
C3_NonPositiveArguments ==
  (pc = "returned" /\ NonPositiveArg) =>
     /\ err # "InvalidDimension"
     /\ op = "train" => /\ err = "none" /\ out = <<>> /\ epoch = 0
                        /\ weights = w_entry
     /\ op = "daydream" => /\ err = (IF args[1] = 0 THEN "IndexError" ELSE "ValueError")
                           /\ ret = <<>>
     /\ op \in {"init", "init_other"} =>
          LET nv == args[1]
              nh == args[2]
              w == IF op = "init" THEN weights ELSE other[3]
          IN IF nv + nh = 0 THEN err = "ZeroDivisionError"
             ELSE IF nv < 0 \/ nh < 0 THEN err \in {"ValueError", "OverflowError"}
             ELSE /\ err = "none"
                  /\ Shape(w, nv + 1, nh + 1)
                  /\ \A r \in 1..(nv + 1) : \A c \in 1..(nh + 1) : w[r][c] = 0

C3_Witness ==
  /\ pc = "returned" /\ op = "train" /\ args[1] = 0 /\ err = "none"
  /\ ~Mismatch /\ hist # <<>>

\* C4 as claimed: in every Gibbs step of daydream the visible vector read
\* from the previous row has bias entry 1 and the hidden state used to
\* compute the visible activation has bias entry 1.
C4_BiasHeldInChain ==
  (pc = "dream_visible" /\ ValidEngine) => visible[1] = One /\ hidden_states[1] = One

\* C5: when the weight update of an epoch is about to be applied, column 0
\* of pos_hidden_probs and column 0 of neg_visible_probs are 1 in every row.
C5_ProbsBiasPinned ==
  pc = "train_update" =>
    /\ Shape(pos_hidden_probs, Rows(data), num_hidden + 1)
    /\ Shape(neg_visible_probs, Rows(data), num_visible + 1)
    /\ \A r \in 1..Rows(data) :
         pos_hidden_probs[r][1] = One /\ neg_visible_probs[r][1] = One

C5_Witness ==
  /\ pc = "train_update" /\ hist # <<>>
  /\ weights[1][1] # 0

\* C6: run_visible, run_hidden and daydream leave the weight matrix,
\* numVisible and numHidden unchanged in every step they take.
C6_QueriesKeepWeights ==
  [][op' \in {"run_visible", "run_hidden", "daydream"} =>
       UNCHANGED <<weights, num_visible, num_hidden>>]_vars

C6_Witness ==
  /\ pc = "returned" /\ op = "run_hidden" /\ err = "none"
  /\ hist # <<>> /\ weights # Transpose(weights)

\* C7: daydream(k), k >= 1, returns k rows of numVisible entries; rows
\* 1..k-1 are 0 or 1, row 0 holds the raw uniform draws; k-1 Gibbs steps
\* were executed, none for k = 1.
C7_DaydreamResult ==
  (pc = "returned" /\ op = "daydream" /\ err = "none") =>
     /\ num_samples >= 1
     /\ Shape(ret, num_samples, num_visible)
     /\ \A r \in 2..num_samples : \A c \in 1..num_visible : ret[r][c] \in {0, One}
     /\ \A c \in 1..num_visible : ret[1][c] \in RandVals
     /\ i = num_samples
     /\ num_samples = 1 => hidden_states = <<>> /\ "dot" \notin numpy_ops

C7_Witness ==
  /\ pc = "returned" /\ op = "daydream" /\ err = "none"
  /\ num_samples >= 3 /\ num_visible >= 2 /\ hist # <<>>
  /\ ret[1][1] \notin {0, One}
  /\ ret[2] # ret[3]

\* rnd with its bias column (column 0) replaced by the draws b
WithBiasDraws(u, b) ==
  Values([r \in 1..Rows(u) |-> Values([c \in 1..Cols(u) |-> IF c = 1 THEN b[r] ELSE u[r][c]])])

\* the sample of the bias column, before it is dropped
SampledBias(w, d, u) ==
  LET sampled == Greater(Logistic(Dot(d, w)), u)
  IN Values([r \in 1..Rows(d) |-> sampled[r][1]])

ZeroBias(w) ==
  /\ \A r \in 1..Rows(w) : w[r][1] = 0
  /\ \A c \in 1..Cols(w) : w[1][c] = 0

\* C9: a construction with dimensions V, H leaves a (V+1) x (H+1) weight
\* matrix with row 0 and column 0 zero, identical to the matrix the object
\* under use was constructed with when the dimensions agree, whatever was
\* constructed, trained or queried in between.
C9_ConstructionDeterministic ==
  /\ (pc = "returned" /\ op = "init" /\ err = "none") =>
        Shape(weights, num_visible + 1, num_hidden + 1) /\ ZeroBias(weights)
  /\ (pc = "returned" /\ op = "init_other" /\ err = "none") =>
        /\ Shape(other[3], other[1] + 1, other[2] + 1) /\ ZeroBias(other[3])
        /\ (constructed /\ other[1] = num_visible /\ other[2] = num_hidden) =>
              other[3] = init_weights

C9_Witness ==
  /\ pc = "returned" /\ op = "init_other" /\ err = "none"
  /\ constructed /\ other[1] = num_visible /\ other[2] = num_hidden
  /\ num_visible >= 1 /\ num_hidden >= 1
  /\ hist # <<>> /\ weights # init_weights

\* the last n entries of h
LastN(h, n) == SubSeq(h, Len(h) - n + 1, Len(h))

====
